---- MODULE Spec2Model ----
(***************************************************************************)
(* A model of kati's shell-builtin optimizer (shellutil.go): the registry  *)
(* of recognized shell commands (shBuiltins), the compaction of a matched  *)
(* command into a native node, and the Eval method of every native node.   *)
(*                                                                         *)
(* Text is modelled as Go models it: a string or []byte is a sequence of   *)
(* byte values 0..255 (ASCII codes).  The text each tuple stands for is    *)
(* given in the comment beside it.                                         *)
(***************************************************************************)
EXTENDS Integers, Sequences, FiniteSets, TLC

VARIABLES
    pc,         \* position: "start", "datecall", "dateloop", "ready", "done", "rot"
    shape,      \* the registry entry whose shape the live command was written in (0: none)
    fill,       \* the values filling the slots of that shape (the live command's variable parts)
    ts,         \* ShellDateTimestamp
    idx,        \* androidFindCache: [initialized, files, leaves]
    caps,       \* the arguments of the running compactShellDate call
    dateLoop,   \* compactShellDate's loop: [tfstr, remaining]
    node,       \* the Value compaction returned for the command
    ev,         \* the record of the node's last Eval
    buf         \* rot13's buffer: [orig, cur, n]

vars == <<pc, shape, fill, ts, idx, caps, dateLoop, node, ev, buf>>

-----------------------------------------------------------------------------
(* Bounds of the model. *)

\* longest rot13 buffer drawn over the boundary bytes
MaxBufLen == 3
\* most path tokens in a resolved variable value
MaxTokens == 3
\* longest date format in a live date command
MaxLiveFmtLen == 2
\* longest date format handed to compactShellDate
MaxFmtLen == 3
\* most words the index writes for one query
MaxWords == 1

-----------------------------------------------------------------------------
(* Byte strings. *)

Byte == 0..255

RECURSIVE SeqsUpTo(_, _)
\* every sequence over S of length at most n
SeqsUpTo(S, n) ==
    IF n = 0 THEN {<<>>}
    ELSE LET shorter == SeqsUpTo(S, n - 1)
         IN  shorter \cup {Append(s, c) : s \in {t \in shorter : Len(t) = n - 1}, c \in S}

\* s[from..] (1-based), the rest of s
Drop(s, k) == SubSeq(s, k + 1, Len(s))

\* s[..k]
Take(s, k) == SubSeq(s, 1, k)

\* strings.HasPrefix
HasPrefix(s, p) == Len(s) >= Len(p) /\ Take(s, Len(p)) = p

\* strings.Contains
Contains(s, sub) ==
    \E i \in 0..(Len(s) - Len(sub)) : SubSeq(s, i + 1, i + Len(sub)) = sub

\* ".."
DotDot == <<46, 46>>

-----------------------------------------------------------------------------
(* rot13 *)

\* b -= 26 dropped: the wrap-around is forgotten
Rot13ByteNoWrap(b) ==
    IF b >= 97 /\ b <= 122 THEN (b + 13) % 256
    ELSE IF b >= 65 /\ b <= 90 THEN (b + 13) % 256
    ELSE b

\* one iteration of rot13's loop on a byte (uint8 arithmetic)
Rot13Byte(b) ==
    IF b >= 97 /\ b <= 122                       \* b >= 'a' && b <= 'z'
    THEN LET c == (b + (110 - 97)) % 256          \* b += 'n' - 'a'
         IN  IF c > 122                           \* if b > 'z'
             THEN (c + 256 - (122 - 97 + 1)) % 256    \* b -= 'z' - 'a' + 1
             ELSE c
    ELSE IF b >= 65 /\ b <= 90                   \* b >= 'A' && b <= 'Z'
    THEN LET c == (b + (78 - 65)) % 256           \* b += 'N' - 'A'
         IN  IF c > 90                            \* if b > 'Z'
             THEN (c + 256 - (90 - 65 + 1)) % 256     \* b -= 'Z' - 'A' + 1
             ELSE c
    ELSE b

\* rot13(buf): the buffer after the in-place loop
rot13(b) == [i \in 1..Len(b) |-> Rot13Byte(b[i])]

-----------------------------------------------------------------------------
(* The literal texts of shellutil.go, as bytes. *)

\* text: [echo ]
LitEcho == <<101, 99, 104, 111, 32>>

\* text: [ | tr 'a-zA-Z' 'n-za-mN-ZA-M']
LitTr == <<32, 124, 32, 116, 114, 32, 39, 97, 45, 122, 65, 45, 90, 39, 32, 39, 110, 45, 122, 97, 45, 109, 78, 45, 90, 65, 45, 77, 39>>

\* text: [if [ -d ]
LitIfD == <<105, 102, 32, 91, 32, 45, 100, 32>>

\* text: [ ] ; then cd ]
LitThenCd == <<32, 93, 32, 59, 32, 116, 104, 101, 110, 32, 99, 100, 32>>

\* text: [ ; find ./ -not -name '.*' -and -type f -and -not -type l ; fi]
LitFindAssets == <<32, 59, 32, 102, 105, 110, 100, 32, 46, 47, 32, 45, 110, 111, 116, 32, 45, 110, 97, 109, 101, 32, 39, 46, 42, 39, 32, 45, 97, 110, 100, 32, 45, 116, 121, 112, 101, 32, 102, 32, 45, 97, 110, 100, 32, 45, 110, 111, 116, 32, 45, 116, 121, 112, 101, 32, 108, 32, 59, 32, 102, 105>>

\* text: [cd ]
LitCd == <<99, 100, 32>>

\* text: [ ; find -L ]
LitFindL == <<32, 59, 32, 102, 105, 110, 100, 32, 45, 76, 32>>

\* text: [ -name "*.java" -and -not -name ".*"]
LitNameJava == <<32, 45, 110, 97, 109, 101, 32, 34, 42, 46, 106, 97, 118, 97, 34, 32, 45, 97, 110, 100, 32, 45, 110, 111, 116, 32, 45, 110, 97, 109, 101, 32, 34, 46, 42, 34>>

\* text: [ -name "*.proto" -and -not -name ".*"]
LitNameProto == <<32, 45, 110, 97, 109, 101, 32, 34, 42, 46, 112, 114, 111, 116, 111, 34, 32, 45, 97, 110, 100, 32, 45, 110, 111, 116, 32, 45, 110, 97, 109, 101, 32, 34, 46, 42, 34>>

\* text: [/]
LitSlash == <<47>>

\* text: [ && find . -type d -a -name ".svn" -prune -o -type f -a \! -name "*.java" -a \! -name "package.html" -a \! -name "overview.html" -a \! -name ".*.swp" -a \! -name ".DS_Store" -a \! -name "*~" -print ]
LitFindResources == <<32, 38, 38, 32, 102, 105, 110, 100, 32, 46, 32, 45, 116, 121, 112, 101, 32, 100, 32, 45, 97, 32, 45, 110, 97, 109, 101, 32, 34, 46, 115, 118, 110, 34, 32, 45, 112, 114, 117, 110, 101, 32, 45, 111, 32, 45, 116, 121, 112, 101, 32, 102, 32, 45, 97, 32, 92, 33, 32, 45, 110, 97, 109, 101, 32, 34, 42, 46, 106, 97, 118, 97, 34, 32, 45, 97, 32, 92, 33, 32, 45, 110, 97, 109, 101, 32, 34, 112, 97, 99, 107, 97, 103, 101, 46, 104, 116, 109, 108, 34, 32, 45, 97, 32, 92, 33, 32, 45, 110, 97, 109, 101, 32, 34, 111, 118, 101, 114, 118, 105, 101, 119, 46, 104, 116, 109, 108, 34, 32, 45, 97, 32, 92, 33, 32, 45, 110, 97, 109, 101, 32, 34, 46, 42, 46, 115, 119, 112, 34, 32, 45, 97, 32, 92, 33, 32, 45, 110, 97, 109, 101, 32, 34, 46, 68, 83, 95, 83, 116, 111, 114, 101, 34, 32, 45, 97, 32, 92, 33, 32, 45, 110, 97, 109, 101, 32, 34, 42, 126, 34, 32, 45, 112, 114, 105, 110, 116, 32>>

\* text: [build/tools/findleaves.py --prune=]
LitFindleaves == <<98, 117, 105, 108, 100, 47, 116, 111, 111, 108, 115, 47, 102, 105, 110, 100, 108, 101, 97, 118, 101, 115, 46, 112, 121, 32, 45, 45, 112, 114, 117, 110, 101, 61>>

\* text: [ --prune=.repo --prune=.git . CleanSpec.mk]
LitPruneCleanSpec == <<32, 45, 45, 112, 114, 117, 110, 101, 61, 46, 114, 101, 112, 111, 32, 45, 45, 112, 114, 117, 110, 101, 61, 46, 103, 105, 116, 32, 46, 32, 67, 108, 101, 97, 110, 83, 112, 101, 99, 46, 109, 107>>

\* text: [ --prune=.repo --prune=.git ]
LitPruneRepoGit == <<32, 45, 45, 112, 114, 117, 110, 101, 61, 46, 114, 101, 112, 111, 32, 45, 45, 112, 114, 117, 110, 101, 61, 46, 103, 105, 116, 32>>

\* text: [ --prune=.repo --prune=.git --mindepth=2 ]
LitPruneMindepth == <<32, 45, 45, 112, 114, 117, 110, 101, 61, 46, 114, 101, 112, 111, 32, 45, 45, 112, 114, 117, 110, 101, 61, 46, 103, 105, 116, 32, 45, 45, 109, 105, 110, 100, 101, 112, 116, 104, 61, 50, 32>>

\* text: [ Android.mk]
LitAndroidMk == <<32, 65, 110, 100, 114, 111, 105, 100, 46, 109, 107>>

\* text: [date +]
LitDatePlus == <<100, 97, 116, 101, 32, 43>>

\* text: [date "+]
LitDateQuotePlus == <<100, 97, 116, 101, 32, 34, 43>>

\* text: ["]
LitQuote == <<34>>

\* text: [.java]
ExtJava == <<46, 106, 97, 118, 97>>

\* text: [.proto]
ExtProto == <<46, 112, 114, 111, 116, 111>>

\* text: [CleanSpec.mk]
NameCleanSpec == <<67, 108, 101, 97, 110, 83, 112, 101, 99, 46, 109, 107>>

\* text: [Android.mk]
NameAndroidMk == <<65, 110, 100, 114, 111, 105, 100, 46, 109, 107>>

\* text: [.repo]
DotRepo == <<46, 114, 101, 112, 111>>

\* text: [.git]
DotGit == <<46, 103, 105, 116>>

\* text: [.]
Dot == <<46>>

\* text: [%Y]
K_Y == <<37, 89>>

\* text: [%m]
K_m == <<37, 109>>

\* text: [%d]
K_d == <<37, 100>>

\* text: [%H]
K_H == <<37, 72>>

\* text: [%M]
K_M == <<37, 77>>

\* text: [%S]
K_S == <<37, 83>>

\* text: [%b]
K_b == <<37, 98>>

\* text: [%k]
K_k == <<37, 107>>

\* text: [2006]
V_2006 == <<50, 48, 48, 54>>

\* text: [01]
V_01 == <<48, 49>>

\* text: [02]
V_02 == <<48, 50>>

\* text: [15]
V_15 == <<49, 53>>

\* text: [04]
V_04 == <<48, 52>>

\* text: [05]
V_05 == <<48, 53>>

\* text: [Jan]
V_Jan == <<74, 97, 110>>


-----------------------------------------------------------------------------
(* Values of the expression layer and the segments of a pattern. *)

\* literal(s)
Literal(s) == [t |-> "literal", s |-> s, n |-> 0]

\* a *varref to the variable named name (bytes): a pointer, so two parsed
\* references are two values even to one variable
Varref(name, ptr) == [t |-> "varref", s |-> name, n |-> ptr]

\* a paramref: $(1), $(2), a value type compared by its number
Paramref(n) == [t |-> "paramref", s |-> <<>>, n |-> n]

\* matchVarref{}
MatchVarref == [t |-> "matchVarref"]

\* mustLiteralRE of the anchored pattern  pre ( group ) post, the group either a
\* fixed text (cls = "lit", its text in s) or one or more bytes of a class
\* ("S": \S, "Q": [^"])
LiteralRE(pre, cls, s, post) == [t |-> "literalRE", pre |-> pre, cls |-> cls, s |-> s, post |-> post]

IsSpace(b) == b \in {9, 10, 11, 12, 13, 32}

InClass(cls, b) ==
    CASE cls = "S" -> ~IsSpace(b)
      [] cls = "Q" -> b # 34

\* re.FindStringSubmatch(text) for an anchored literalRE: [ok, groups]
FindStringSubmatch(re, text) ==
    LET n   == Len(text) - Len(re.pre) - Len(re.post)
        mid == SubSeq(text, Len(re.pre) + 1, Len(re.pre) + n)
        fit == /\ n >= 0
               /\ Take(text, Len(re.pre)) = re.pre
               /\ Drop(text, Len(re.pre) + n) = re.post
               /\ IF re.cls = "lit" THEN mid = re.s
                  ELSE n >= 1 /\ \A i \in 1..n : InClass(re.cls, mid[i])
    IN  IF fit THEN [ok |-> TRUE, groups |-> <<Literal(mid)>>]
        ELSE [ok |-> FALSE, groups |-> <<>>]

RECURSIVE MatchFrom(_, _, _, _)
\* matchExpr's loop from segment i on, with the matches so far
MatchFrom(exp, pat, i, matches) ==
    IF i > Len(exp) THEN [ok |-> TRUE, matches |-> matches]
    ELSE IF pat[i].t = "matchVarref"
    THEN IF exp[i].t \in {"paramref", "varref"}
         THEN MatchFrom(exp, pat, i + 1, Append(matches, exp[i]))
         ELSE [ok |-> FALSE, matches |-> <<>>]
    ELSE IF pat[i].t = "literalRE"
    THEN LET m == IF exp[i].t = "literal" THEN FindStringSubmatch(pat[i], exp[i].s)
                  ELSE [ok |-> FALSE, groups |-> <<>>]
         IN  IF m.ok THEN MatchFrom(exp, pat, i + 1, matches \o m.groups)
             ELSE [ok |-> FALSE, matches |-> <<>>]
    ELSE IF exp[i] = pat[i] THEN MatchFrom(exp, pat, i + 1, matches)
    ELSE [ok |-> FALSE, matches |-> <<>>]

\* matchExpr(exp, pat): the captured values, or no match
matchExpr(exp, pat) ==
    IF Len(exp) # Len(pat) THEN [ok |-> FALSE, matches |-> <<>>]
    ELSE MatchFrom(exp, pat, 1, <<>>)

-----------------------------------------------------------------------------
(* shBuiltins: the patterns, in registry order. *)

\* echo $(1) | tr 'a-zA-Z' 'n-za-mN-ZA-M'
PatRot13 == <<Literal(LitEcho), MatchVarref, Literal(LitTr)>>

\* if [ -d $1 ] ; then cd $1 ; find ./ -not -name '.*' -and -type f -and -not -type l ; fi
PatFindSubdirAssets ==
    <<Literal(LitIfD), MatchVarref, Literal(LitThenCd), MatchVarref, Literal(LitFindAssets)>>

\* cd ${LOCAL_PATH} ; find -L $1 -name "*.java" -and -not -name ".*"
PatAllJavaFilesUnder ==
    <<Literal(LitCd), MatchVarref, Literal(LitFindL), MatchVarref, Literal(LitNameJava)>>

\* the java entry's pattern pasted without changing the extension
PatAllProtoFilesUnderPasted == PatAllJavaFilesUnder

\* cd $(LOCAL_PATH) ; find -L $(1) -name "*.proto" -and -not -name ".*"
PatAllProtoFilesUnder ==
    <<Literal(LitCd), MatchVarref, Literal(LitFindL), MatchVarref, Literal(LitNameProto)>>

\* cd ${TOP_DIR}${LOCAL_PATH}/${dir} && find . -type d -a -name ".svn" -prune -o ...
PatJavaResourceFileGroups ==
    <<Literal(LitCd), MatchVarref, MatchVarref, LiteralRE(<<>>, "lit", LitSlash, <<>>),
      MatchVarref, Literal(LitFindResources)>>

\* build/tools/findleaves.py --prune=$(OUT_DIR) --prune=.repo --prune=.git . CleanSpec.mk
PatSubdirCleanspecs ==
    <<Literal(LitFindleaves), MatchVarref, Literal(LitPruneCleanSpec)>>

\* build/tools/findleaves.py --prune=$(OUT_DIR) --prune=.repo --prune=.git $(subdirs) Android.mk
PatSubdirMakefiles ==
    <<Literal(LitFindleaves), MatchVarref, Literal(LitPruneRepoGit), MatchVarref,
      Literal(LitAndroidMk)>>

\* build/tools/findleaves.py --prune=$(OUT_DIR) --prune=.repo --prune=.git --mindepth=2 $(1) Android.mk
PatFirstMakefilesUnder ==
    <<Literal(LitFindleaves), MatchVarref, Literal(LitPruneMindepth), MatchVarref,
      Literal(LitAndroidMk)>>

\* date \+(\S+)
PatShellDate == <<LiteralRE(LitDatePlus, "S", <<>>, <<>>)>>

\* date "\+([^"]+)"
PatShellDateQuoted == <<LiteralRE(LitDateQuotePlus, "Q", <<>>, LitQuote)>>

shBuiltins ==
    << [name |-> "android:rot13",                     pattern |-> PatRot13],
       [name |-> "android:find-subdir-assets",        pattern |-> PatFindSubdirAssets],
       [name |-> "android:all-java-files-under",      pattern |-> PatAllJavaFilesUnder],
       [name |-> "android:all-proto-files-under",     pattern |-> PatAllProtoFilesUnder],
       [name |-> "android:java_resource_file_groups", pattern |-> PatJavaResourceFileGroups],
       [name |-> "android:subdir_cleanspecs",         pattern |-> PatSubdirCleanspecs],
       [name |-> "android:subdir_makefiles",          pattern |-> PatSubdirMakefiles],
       [name |-> "android:first-makefiles-under",     pattern |-> PatFirstMakefilesUnder],
       [name |-> "shell-date",                        pattern |-> PatShellDate],
       [name |-> "shell-date-quoted",                 pattern |-> PatShellDateQuoted] >>

\* the entries a command matches
Matching(exp) == {i \in 1..Len(shBuiltins) : matchExpr(exp, shBuiltins[i].pattern).ok}

\* the first entry in registry order that matches the command, 0 when none does
FirstMatch(exp) ==
    IF Matching(exp) = {} THEN 0
    ELSE CHOOSE i \in Matching(exp) : \A j \in Matching(exp) : i <= j

-----------------------------------------------------------------------------
(* Compaction: what each entry's compact function returns for the captured *)
(* values v (1-based here, 0-based in Go), and whether it has called       *)
(* androidFindCache.init.                                                  *)

\* the original node, sh
sh == [kind |-> "funcShell"]

Compacted(n, init) == [node |-> n, init |-> init]

compactRot13(v) ==
    Compacted([kind |-> "funcShellAndroidRot13", v |-> v[1]], FALSE)

compactFindSubdirAssets(v) ==
    IF v[1] # v[2] THEN Compacted(sh, FALSE)
    ELSE Compacted([kind |-> "funcShellAndroidFindFileInDir", dir |-> v[1]], TRUE)

compactAllJavaFilesUnder(v) ==
    Compacted([kind |-> "funcShellAndroidFindExtFilesUnder",
               chdir |-> v[1], roots |-> v[2], ext |-> ExtJava], TRUE)

compactAllProtoFilesUnder(v) ==
    Compacted([kind |-> "funcShellAndroidFindExtFilesUnder",
               chdir |-> v[1], roots |-> v[2], ext |-> ExtProto], TRUE)

\* dir is expr(v): the captured values one after the other
compactJavaResourceFileGroups(v) ==
    Compacted([kind |-> "funcShellAndroidFindJavaResourceFileGroup", dir |-> v], TRUE)

compactSubdirCleanspecs(v, names) ==
    IF NameCleanSpec \notin names THEN Compacted(sh, FALSE)
    ELSE Compacted([kind |-> "funcShellAndroidFindleaves",
                    prunes |-> <<v[1], Literal(DotRepo), Literal(DotGit)>>,
                    dirlist |-> Literal(Dot),
                    name |-> Literal(NameCleanSpec),
                    mindepth |-> -1], TRUE)

compactSubdirMakefiles(v, names) ==
    IF NameAndroidMk \notin names THEN Compacted(sh, FALSE)
    ELSE Compacted([kind |-> "funcShellAndroidFindleaves",
                    prunes |-> <<v[1], Literal(DotRepo), Literal(DotGit)>>,
                    dirlist |-> v[2],
                    name |-> Literal(NameAndroidMk),
                    mindepth |-> -1], TRUE)

\* the subdir_makefiles entry pasted without setting mindepth to 2
compactFirstMakefilesUnderPasted(v, names) == compactSubdirMakefiles(v, names)

compactFirstMakefilesUnder(v, names) ==
    IF NameAndroidMk \notin names THEN Compacted(sh, FALSE)
    ELSE Compacted([kind |-> "funcShellAndroidFindleaves",
                    prunes |-> <<v[1], Literal(DotRepo), Literal(DotGit)>>,
                    dirlist |-> v[2],
                    name |-> Literal(NameAndroidMk),
                    mindepth |-> 2], TRUE)

\* shBuiltins[i].compact(sh, v) for the entries other than the two date entries
compact(i, v, names) ==
    CASE i = 1 -> compactRot13(v)
      [] i = 2 -> compactFindSubdirAssets(v)
      [] i = 3 -> compactAllJavaFilesUnder(v)
      [] i = 4 -> compactAllProtoFilesUnder(v)
      [] i = 5 -> compactJavaResourceFileGroups(v)
      [] i = 6 -> compactSubdirCleanspecs(v, names)
      [] i = 7 -> compactSubdirMakefiles(v, names)
      [] i = 8 -> compactFirstMakefilesUnder(v, names)

\* the entries whose compact is compactShellDate
DateEntries == {i \in 1..Len(shBuiltins) : shBuiltins[i].name \in {"shell-date", "shell-date-quoted"}}

-----------------------------------------------------------------------------
(* The evaluator's side: resolution of values, trimming, word scanning,    *)
(* the space-separating writer.                                            *)

\* the variable a reference resolves: its name or number, not its pointer
VarKey(v) == [t |-> v.t, s |-> v.s, n |-> IF v.t = "paramref" THEN v.n ELSE 0]

RECURSIVE Concat(_)
Concat(ss) == IF ss = <<>> THEN <<>> ELSE Head(ss) \o Concat(Tail(ss))

\* a value's evaluation in env (variable -> [ok, s]): [ok, s]
EvalValue(env, v) ==
    IF v.t = "literal" THEN [ok |-> TRUE, s |-> v.s]
    ELSE env[VarKey(v)]

\* ev.args(abuf, values...): every value evaluated, or the first error
Args(env, values) ==
    LET rs == [i \in 1..Len(values) |->
                  IF values[i].t = "expr"
                  THEN LET ps == [j \in 1..Len(values[i].parts) |-> EvalValue(env, values[i].parts[j])]
                       IN  [ok |-> \A j \in 1..Len(ps) : ps[j].ok,
                            s  |-> Concat([j \in 1..Len(ps) |-> ps[j].s])]
                  ELSE EvalValue(env, values[i])]
    IN  IF \A i \in 1..Len(rs) : rs[i].ok
        THEN [ok |-> TRUE, fargs |-> [i \in 1..Len(rs) |-> rs[i].s]]
        ELSE [ok |-> FALSE, fargs |-> <<>>]

\* expr(v) as one value
Expr(parts) == [t |-> "expr", parts |-> parts]

RECURSIVE TrimLeft(_)
TrimLeft(s) == IF s # <<>> /\ IsSpace(Head(s)) THEN TrimLeft(Tail(s)) ELSE s

RECURSIVE TrimRight(_)
TrimRight(s) == IF s # <<>> /\ IsSpace(s[Len(s)]) THEN TrimRight(Take(s, Len(s) - 1)) ELSE s

trimSpaceBytes(s) == TrimRight(TrimLeft(s))

RECURSIVE ScanWords(_, _, _)
\* the words of s from byte i on, cur the word being read
ScanWords(s, i, cur) ==
    IF i > Len(s) THEN (IF cur = <<>> THEN <<>> ELSE <<cur>>)
    ELSE IF IsSpace(s[i])
    THEN (IF cur = <<>> THEN <<>> ELSE <<cur>>) \o ScanWords(s, i + 1, <<>>)
    ELSE ScanWords(s, i + 1, Append(cur, s[i]))

\* newWordScanner(s), Scan() to the end: the words of s
Words(s) == ScanWords(s, 1, <<>>)

\* what a node writes: the original command's output, bytes of its own, the
\* w-th word the index writes for the node's q-th query, or a separating space
OrigItem == [src |-> "orig", s |-> <<>>, q |-> 0, w |-> 0]
BytesItem(s) == [src |-> "bytes", s |-> s, q |-> 0, w |-> 0]
WordItem(q, w) == [src |-> "word", s |-> <<>>, q |-> q, w |-> w]
SpaceItem == [src |-> "space", s |-> <<>>, q |-> 0, w |-> 0]

\* ssvWriter.Write: a space before every word but the first
SsvWrite(sw, item) ==
    [w |-> (IF sw.sep THEN Append(sw.w, SpaceItem) ELSE sw.w) \o <<item>>, sep |-> TRUE]

RECURSIVE IndexWrites(_, _, _, _)
\* the index writing the words k..n of its answer to query q through sw
IndexWrites(sw, q, k, n) ==
    IF k > n THEN sw ELSE IndexWrites(SsvWrite(sw, WordItem(q, k)), q, k + 1, n)

-----------------------------------------------------------------------------
(* androidFindCache, seen from the handlers. *)

ready(c) == c.files

leavesReady(c) == c.leaves

\* androidFindCache.init(nil): idempotent
init(c) == [c EXCEPT !.initialized = TRUE]

IdxStates ==
    {c \in [initialized : BOOLEAN, files : BOOLEAN, leaves : BOOLEAN] :
        (c.files \/ c.leaves) => c.initialized}

\* androidDefaultLeafNames: CleanSpec.mk, Android.mk
androidDefaultLeafNames == {NameCleanSpec, NameAndroidMk}

\* what the index answers one query: whether it can (findExtFilesUnder's
\* result), and how many words it writes
Answers == [ok : BOOLEAN, words : 0..MaxWords]

-----------------------------------------------------------------------------
(* The Eval methods.  Each is given the node f, the index c, the evaluator's *)
(* environment env, the index's answers ans (one per query, in order) and    *)
(* orig, the error the original command's Eval returns; each yields the      *)
(* record of the evaluation:                                                 *)
(*   args      ev.args as called: [called, ok, fargs]                        *)
(*   out       what was written to w, in order                               *)
(*   queries   the index's query methods called, in order                    *)
(*   origEvals how many times f.funcShell.Eval was called                    *)
(*   ret       the error returned: "nil", "args" (ev.args' error), or        *)
(*             "orig nil" / "orig err" (whatever the original returned)      *)

NotCalled == [called |-> FALSE, ok |-> FALSE, fargs |-> <<>>]

ArgsOf(env, values) ==
    LET a == Args(env, values) IN [called |-> TRUE, ok |-> a.ok, fargs |-> a.fargs]

Query(fn, dir, chdir, ext, name, prunes, mindepth) ==
    [fn |-> fn, dir |-> dir, chdir |-> chdir, ext |-> ext, name |-> name,
     prunes |-> prunes, mindepth |-> mindepth]

\* return err
ReturnErr(a) ==
    [args |-> a, out |-> <<>>, queries |-> <<>>, origEvals |-> 0, ret |-> "args"]

\* return f.funcShell.Eval(w, ev), after written reached w and queries were made
CallOriginal(a, written, queries, orig) ==
    [args |-> a, out |-> Append(written, OrigItem), queries |-> queries,
     origEvals |-> 1, ret |-> orig]

\* return nil
ReturnNil(a, written, queries) ==
    [args |-> a, out |-> written, queries |-> queries, origEvals |-> 0, ret |-> "nil"]

NewSsvWriter == [w |-> <<>>, sep |-> FALSE]

\* funcShell.Eval: the original command run
ShellEval(orig) == CallOriginal(NotCalled, <<>>, <<>>, orig)

Rot13Eval(f, env) ==
    LET a == ArgsOf(env, <<f.v>>)
    IN  IF ~a.ok THEN ReturnErr(a)
        ELSE ReturnNil(a, <<BytesItem(rot13(a.fargs[1]))>>, <<>>)

\* the readiness check left out
FindFileInDirEvalUnchecked(f, c, env, ans, orig) ==
    LET a == ArgsOf(env, <<f.dir>>)
    IN  IF ~a.ok THEN ReturnErr(a)
        ELSE LET dir == trimSpaceBytes(a.fargs[1])
             IN  IF Contains(dir, DotDot) THEN CallOriginal(a, <<>>, <<>>, orig)
                 ELSE ReturnNil(a, IndexWrites(NewSsvWriter, 1, 1, ans[1].words).w,
                                <<Query("findInDir", dir, <<>>, <<>>, <<>>, <<>>, 0)>>)

FindFileInDirEval(f, c, env, ans, orig) ==
    LET a == ArgsOf(env, <<f.dir>>)
    IN  IF ~a.ok THEN ReturnErr(a)
        ELSE LET dir == trimSpaceBytes(a.fargs[1])
             IN  IF Contains(dir, DotDot) THEN CallOriginal(a, <<>>, <<>>, orig)
                 ELSE IF ~ready(c) THEN CallOriginal(a, <<>>, <<>>, orig)
                 ELSE ReturnNil(a, IndexWrites(NewSsvWriter, 1, 1, ans[1].words).w,
                                <<Query("findInDir", dir, <<>>, <<>>, <<>>, <<>>, 0)>>)

\* hasDotDot = strings.Contains(root, ".."): only the last root decides
RootsHaveDotDotLast(roots) ==
    roots # <<>> /\ Contains(roots[Len(roots)], DotDot)

\* the scan of fargs[1]: hasDotDot after the loop
RootsHaveDotDot(roots) == \E i \in 1..Len(roots) : Contains(roots[i], DotDot)

RECURSIVE ExtQueryLoop(_, _, _, _, _, _)
\* the loop over roots from root i on: sw the writer into buf, qs the queries so far
ExtQueryLoop(chdir, roots, ext, ans, i, st) ==
    IF i > Len(roots) THEN [ok |-> TRUE, buf |-> st.sw.w, queries |-> st.qs]
    ELSE LET sw == IndexWrites(st.sw, i, 1, ans[i].words)
             qs == Append(st.qs, Query("findExtFilesUnder", roots[i], chdir, ext, <<>>, <<>>, 0))
         IN  IF ~ans[i].ok THEN [ok |-> FALSE, buf |-> sw.w, queries |-> qs]
             ELSE ExtQueryLoop(chdir, roots, ext, ans, i + 1, [sw |-> sw, qs |-> qs])

\* sw := ssvWriter{w: w}: the index writes straight to w
ExtWrittenUnbuffered(loop) == loop.buf

\* what reaches w from buf: all of it after the last root, nothing (freeBuf) on a failure
ExtWritten(loop) == IF loop.ok THEN loop.buf ELSE <<>>

FindExtFilesUnderEval(f, c, env, ans, orig) ==
    LET a == ArgsOf(env, <<f.chdir, f.roots>>)
    IN  IF ~a.ok THEN ReturnErr(a)
        ELSE LET chdir == trimSpaceBytes(a.fargs[1])
                 roots == Words(a.fargs[2])
             IN  IF Contains(chdir, DotDot) \/ RootsHaveDotDot(roots)
                 THEN CallOriginal(a, <<>>, <<>>, orig)
                 ELSE IF ~ready(c) THEN CallOriginal(a, <<>>, <<>>, orig)
                 ELSE LET loop == ExtQueryLoop(chdir, roots, f.ext, ans, 1,
                                               [sw |-> NewSsvWriter, qs |-> <<>>])
                      IN  IF ~loop.ok
                          THEN CallOriginal(a, ExtWritten(loop), loop.queries, orig)
                          ELSE ReturnNil(a, ExtWritten(loop), loop.queries)

\* the error of ev.args taken for one more reason to run the original command
JavaResourceArgsFailedFallsBack(a, orig) == CallOriginal(a, <<>>, <<>>, orig)

\* if err != nil { return err }
JavaResourceArgsFailed(a, orig) == ReturnErr(a)

FindJavaResourceFileGroupEval(f, c, env, ans, orig) ==
    LET a == ArgsOf(env, <<Expr(f.dir)>>)
    IN  IF ~a.ok THEN JavaResourceArgsFailed(a, orig)
        ELSE LET dir == trimSpaceBytes(a.fargs[1])
             IN  IF Contains(dir, DotDot) THEN CallOriginal(a, <<>>, <<>>, orig)
                 ELSE IF ~ready(c) THEN CallOriginal(a, <<>>, <<>>, orig)
                 ELSE ReturnNil(a, IndexWrites(NewSsvWriter, 1, 1, ans[1].words).w,
                                <<Query("findJavaResourceFileGroup", dir, <<>>, <<>>, <<>>, <<>>, 0)>>)

NoDotDot(dir) == ~Contains(dir, DotDot)

\* continue instead of the return: a directory with ".." is left out and the rest searched
FindleavesScanSkipping(words) ==
    [fallback |-> FALSE, dirs |-> SelectSeq(words, NoDotDot)]

\* the scan of fargs[1]: the return at the first directory containing "..", else dirs
FindleavesScan(words) ==
    [fallback |-> \E i \in 1..Len(words) : Contains(words[i], DotDot), dirs |-> words]

RECURSIVE FindleavesLoop(_, _, _, _, _, _, _)
\* the loop over dirs from dir i on
FindleavesLoop(dirs, name, prunes, mindepth, ans, i, st) ==
    IF i > Len(dirs) THEN st
    ELSE FindleavesLoop(dirs, name, prunes, mindepth, ans, i + 1,
            [sw |-> IndexWrites(st.sw, i, 1, ans[i].words),
             qs |-> Append(st.qs, Query("findleaves", dirs[i], <<>>, <<>>, name, prunes, mindepth))])

FindleavesEval(f, c, env, ans, orig) ==
    IF ~leavesReady(c) THEN CallOriginal(NotCalled, <<>>, <<>>, orig)
    ELSE LET a == ArgsOf(env, <<f.name, f.dirlist>> \o f.prunes)
         IN  IF ~a.ok THEN ReturnErr(a)
             ELSE LET name == trimSpaceBytes(a.fargs[1])
                      scan == FindleavesScan(Words(a.fargs[2]))
                      prunes == [i \in 1..(Len(a.fargs) - 2) |-> trimSpaceBytes(a.fargs[i + 2])]
                  IN  IF scan.fallback THEN CallOriginal(a, <<>>, <<>>, orig)
                      ELSE LET loop == FindleavesLoop(scan.dirs, name, prunes, f.mindepth, ans, 1,
                                                      [sw |-> NewSsvWriter, qs |-> <<>>])
                           IN  ReturnNil(a, loop.sw.w, loop.qs)

-----------------------------------------------------------------------------
(* $(shell date +FORMAT) *)

\* a time.Time: the zero time, and a reference timestamp
ZeroTime == [Y |-> 1, m |-> 1, d |-> 1, H |-> 0, M |-> 0, S |-> 0]

\* 2024-03-05 14:07:09
RefTime == [Y |-> 2024, m |-> 3, d |-> 5, H |-> 14, M |-> 7, S |-> 9]

\* time.Time.IsZero
IsZero(t) == t = ZeroTime

shellDateFormatRef ==
    { [k |-> K_Y, v |-> V_2006],
      [k |-> K_m, v |-> V_01],
      [k |-> K_d, v |-> V_02],
      [k |-> K_H, v |-> V_15],
      [k |-> K_M, v |-> V_04],
      [k |-> K_S, v |-> V_05],
      [k |-> K_b, v |-> V_Jan],
      [k |-> K_k, v |-> V_15] }

RECURSIVE Replace(_, _, _)
\* strings.Replace(s, old, new, -1), old not empty
Replace(s, old, new) ==
    IF Len(s) < Len(old) THEN s
    ELSE IF HasPrefix(s, old) THEN new \o Replace(Drop(s, Len(old)), old, new)
    ELSE <<Head(s)>> \o Replace(Tail(s), old, new)

RECURSIVE Digits(_, _)
\* n in decimal, zero-padded to at least width digits
Digits(n, width) ==
    IF n < 10 /\ width <= 1 THEN <<48 + n>>
    ELSE Append(Digits(n \div 10, width - 1), 48 + (n % 10))

\* Jan Feb Mar Apr May Jun Jul Aug Sep Oct Nov Dec
MonthAbbr ==
    << <<74, 97, 110>>,
       <<70, 101, 98>>,
       <<77, 97, 114>>,
       <<65, 112, 114>>,
       <<77, 97, 121>>,
       <<74, 117, 110>>,
       <<74, 117, 108>>,
       <<65, 117, 103>>,
       <<83, 101, 112>>,
       <<79, 99, 116>>,
       <<78, 111, 118>>,
       <<68, 101, 99>> >>

\* the layout element at the head of a layout, as time.Format reads it (of Go's
\* elements, those a layout over the bytes of this model can hold), and its length
StdChunk(s) ==
    IF HasPrefix(s, V_2006) THEN [std |-> "stdLongYear", n |-> 4]
    ELSE IF HasPrefix(s, V_Jan) THEN [std |-> "stdMonth", n |-> 3]
    ELSE IF HasPrefix(s, V_01) THEN [std |-> "stdZeroMonth", n |-> 2]
    ELSE IF HasPrefix(s, V_02) THEN [std |-> "stdZeroDay", n |-> 2]
    ELSE IF HasPrefix(s, <<48, 51>>) THEN [std |-> "stdZeroHour12", n |-> 2]
    ELSE IF HasPrefix(s, V_04) THEN [std |-> "stdZeroMinute", n |-> 2]
    ELSE IF HasPrefix(s, V_05) THEN [std |-> "stdZeroSecond", n |-> 2]
    ELSE IF HasPrefix(s, <<48, 54>>) THEN [std |-> "stdYear", n |-> 2]
    ELSE IF HasPrefix(s, V_15) THEN [std |-> "stdHour", n |-> 2]
    ELSE IF HasPrefix(s, <<49>>) THEN [std |-> "stdNumMonth", n |-> 1]
    ELSE IF HasPrefix(s, <<50>>) THEN [std |-> "stdDay", n |-> 1]
    ELSE IF HasPrefix(s, <<51>>) THEN [std |-> "stdHour12", n |-> 1]
    ELSE IF HasPrefix(s, <<52>>) THEN [std |-> "stdMinute", n |-> 1]
    ELSE IF HasPrefix(s, <<53>>) THEN [std |-> "stdSecond", n |-> 1]
    ELSE [std |-> "", n |-> 1]

Hour12(h) == IF h % 12 = 0 THEN 12 ELSE h % 12

\* the text of one layout element for t
StdText(t, std, s) ==
    CASE std = "stdLongYear"   -> Digits(t.Y, 4)
      [] std = "stdYear"       -> Digits(t.Y % 100, 2)
      [] std = "stdMonth"      -> MonthAbbr[t.m]
      [] std = "stdZeroMonth"  -> Digits(t.m, 2)
      [] std = "stdNumMonth"   -> Digits(t.m, 1)
      [] std = "stdZeroDay"    -> Digits(t.d, 2)
      [] std = "stdDay"        -> Digits(t.d, 1)
      [] std = "stdHour"       -> Digits(t.H, 2)
      [] std = "stdZeroHour12" -> Digits(Hour12(t.H), 2)
      [] std = "stdHour12"     -> Digits(Hour12(t.H), 1)
      [] std = "stdZeroMinute" -> Digits(t.M, 2)
      [] std = "stdMinute"     -> Digits(t.M, 1)
      [] std = "stdZeroSecond" -> Digits(t.S, 2)
      [] std = "stdSecond"     -> Digits(t.S, 1)
      [] std = ""              -> <<Head(s)>>

RECURSIVE Format(_, _)
\* t.Format(layout)
Format(t, layout) ==
    IF layout = <<>> THEN <<>>
    ELSE LET c == StdChunk(layout)
         IN  StdText(t, c.std, layout) \o Format(t, Drop(layout, c.n))

\* the guard with the IsZero test left out
compactShellDateReturnsShUnguarded(t, v) == v[1].t # "literal"

\* compactShellDate's two early returns of sh
compactShellDateReturnsSh(t, v) == IsZero(t) \/ v[1].t # "literal"

\* one iteration of  for k, v := range shellDateFormatRef
DateReplace(tfstr, kv) == Replace(tfstr, kv.k, kv.v)

\* fmt.Fprint(w, ShellDateTimestamp.Format(f.format))
DateEval(f, t) == ReturnNil(NotCalled, <<BytesItem(Format(t, f.format))>>, <<>>)

-----------------------------------------------------------------------------
(* The inputs: live commands, resolved values, rot13 buffers. *)

\* the bytes date formats are written in, in live commands: % Y space "
LiveFmtAlphabet == {37, 89, 32, 34}

\* the formats a date command of the regexp's class can hold
LiveFormats(cls) ==
    {f \in SeqsUpTo(LiveFmtAlphabet, MaxLiveFmtLen) :
        f # <<>> /\ \A i \in 1..Len(f) : InClass(cls, f[i])}

\* what can stand in the p-th segment of a live command of the pattern's shape:
\* $(1) or a reference to A for a matchVarref, a literal the regexp accepts
SlotChoices(pat, p) ==
    IF pat[p].t = "matchVarref" THEN {Paramref(1), Varref(<<65>>, p)}
    ELSE IF pat[p].cls = "lit" THEN {Literal(pat[p].pre \o pat[p].s \o pat[p].post)}
    ELSE {Literal(pat[p].pre \o f \o pat[p].post) : f \in LiveFormats(pat[p].cls)}

RECURSIVE FillsFrom(_, _)
\* the fillings of the pattern's slots from segment p on
FillsFrom(pat, p) ==
    IF p > Len(pat) THEN {<<>>}
    ELSE IF pat[p].t = "literal" THEN FillsFrom(pat, p + 1)
    ELSE {<<x>> \o rest : x \in SlotChoices(pat, p), rest \in FillsFrom(pat, p + 1)}

RECURSIVE FillFrom(_, _, _)
\* the pattern from segment p on with its slots filled
FillFrom(pat, f, p) ==
    IF p > Len(pat) THEN <<>>
    ELSE IF pat[p].t = "literal" THEN <<pat[p]>> \o FillFrom(pat, f, p + 1)
    ELSE <<Head(f)>> \o FillFrom(pat, Tail(f), p + 1)

\* commands of no registered shape: echo $(1), and date + with no format
ForeignCommands == { <<Literal(LitEcho), Paramref(1)>>, <<Literal(LitDatePlus)>> }

\* the live command of a state
LiveCommand(s, f) == IF s = 0 THEN f ELSE FillFrom(shBuiltins[s].pattern, f, 1)

\* path tokens: a, ../a
Tokens == {<<97>>, <<46, 46, 47, 97>>}

RECURSIVE Join(_)
\* the tokens with one space between
Join(l) == IF l = <<>> THEN <<>>
           ELSE IF Len(l) = 1 THEN l[1]
           ELSE l[1] \o <<32>> \o Join(Tail(l))

\* what a variable can resolve to: up to MaxTokens tokens, and the lists of at
\* most one token with white space around (space tab ... newline)
ResolvedValues ==
    {Join(l) : l \in SeqsUpTo(Tokens, MaxTokens)}
    \cup {<<32, 9>> \o Join(l) \o <<10>> : l \in SeqsUpTo(Tokens, 1)}

Resolutions == {[ok |-> TRUE, s |-> s] : s \in ResolvedValues} \cup {[ok |-> FALSE, s |-> <<>>]}

RECURSIVE VarsIn(_)
\* the variables the values refer to
VarsIn(values) ==
    IF values = <<>> THEN {}
    ELSE (IF Head(values).t = "literal" THEN {} ELSE {VarKey(Head(values))}) \cup VarsIn(Tail(values))

\* the environments an evaluation of the values can meet
Envs(values) == [VarsIn(values) -> Resolutions]

\* bytes at the edges of rot13's ranges: @ A M N Z [ ` a m n z {
BoundaryBytes == {64, 65, 77, 78, 90, 91, 96, 97, 109, 110, 122, 123}

RotInputs == {<<b>> : b \in Byte} \cup SeqsUpTo(BoundaryBytes, MaxBufLen)

\* the bytes formats handed to compactShellDate directly are written in: % Y k j -
FmtAlphabet == {37, 89, 107, 106, 45}

-----------------------------------------------------------------------------
(* The state machine. *)

NoEval == [args |-> NotCalled, out |-> <<>>, queries |-> <<>>, origEvals |-> 0, ret |-> "none"]

NoBuf == [orig |-> <<>>, cur |-> <<>>, n |-> 0]

NoLoop == [tfstr |-> <<>>, remaining |-> {}]

\* a command about to be compacted, the process-wide state whatever it may be
Init ==
    /\ pc = "start"
    /\ \E s \in 0..Len(shBuiltins) :
          /\ shape = s
          /\ fill \in (IF s = 0 THEN ForeignCommands ELSE FillsFrom(shBuiltins[s].pattern, 1))
    /\ ts \in {ZeroTime, RefTime}
    /\ idx \in IdxStates
    /\ caps = <<>>
    /\ dateLoop = NoLoop
    /\ node = sh
    /\ ev = NoEval
    /\ buf = NoBuf

\* the registry walked for the live command, and the first matching entry's
\* compact called (for a date entry: compactShellDate entered)
CompactCommand ==
    /\ pc = "start"
    /\ LET exp == LiveCommand(shape, fill)
           i   == FirstMatch(exp)
       IN  IF i = 0
           THEN /\ pc' = "ready"
                /\ UNCHANGED <<node, idx, caps>>
           ELSE LET v == matchExpr(exp, shBuiltins[i].pattern).matches
                IN  IF i \in DateEntries
                    THEN /\ pc' = "datecall"
                         /\ caps' = v
                         /\ UNCHANGED <<node, idx>>
                    ELSE LET r == compact(i, v, androidDefaultLeafNames)
                         IN  /\ pc' = "ready"
                             /\ node' = r.node
                             /\ idx' = IF r.init THEN init(idx) ELSE idx
                             /\ caps' = v
    /\ UNCHANGED <<shape, fill, ts, dateLoop, ev, buf>>

\* compactShellDate(sh, caps) up to its loop
CompactShellDateCall ==
    /\ pc = "datecall"
    /\ IF compactShellDateReturnsSh(ts, caps)
       THEN /\ pc' = "ready"
            /\ node' = sh
            /\ UNCHANGED dateLoop
       ELSE /\ pc' = "dateloop"
            /\ dateLoop' = [tfstr |-> caps[1].s, remaining |-> shellDateFormatRef]
            /\ UNCHANGED node
    /\ UNCHANGED <<shape, fill, ts, idx, caps, ev, buf>>

\* one iteration of the loop over the map, in whatever order the map gives
DateLoopStep ==
    /\ pc = "dateloop"
    /\ \E kv \in dateLoop.remaining :
          dateLoop' = [tfstr |-> DateReplace(dateLoop.tfstr, kv),
                       remaining |-> dateLoop.remaining \ {kv}]
    /\ UNCHANGED <<pc, shape, fill, ts, idx, caps, node, ev, buf>>

\* return &funcShellDate{funcShell: sh, format: tfstr}
CompactShellDateReturn ==
    /\ pc = "dateloop"
    /\ dateLoop.remaining = {}
    /\ pc' = "ready"
    /\ node' = [kind |-> "funcShellDate", format |-> dateLoop.tfstr]
    /\ UNCHANGED <<shape, fill, ts, idx, caps, dateLoop, ev, buf>>

\* the index's file lists become ready, some time after init
IndexFilesReady ==
    /\ pc \in {"start", "ready"}
    /\ idx.initialized /\ ~idx.files
    /\ idx' = [idx EXCEPT !.files = TRUE]
    /\ UNCHANGED <<pc, shape, fill, ts, caps, dateLoop, node, ev, buf>>

\* the index's leaves become ready, some time after init
IndexLeavesReady ==
    /\ pc \in {"start", "ready"}
    /\ idx.initialized /\ ~idx.leaves
    /\ idx' = [idx EXCEPT !.leaves = TRUE]
    /\ UNCHANGED <<pc, shape, fill, ts, caps, dateLoop, node, ev, buf>>

AllOk == [i \in 1..(MaxTokens + 1) |-> [ok |-> TRUE, words |-> 0]]

OrigResults == {"orig nil", "orig err"}

\* the index's answers to as many queries as an evaluation can come to make
AnswersTo(r) == [1..Len(r.queries) -> Answers]

\* the evaluation r, with the original command returning orig, is the node's
\* last (orig is immaterial to an evaluation that does not run the original)
Evaluated(r, orig) ==
    /\ r.origEvals = 0 => orig = "orig nil"
    /\ ev' = r
    /\ pc' = "done"
    /\ UNCHANGED <<shape, fill, ts, idx, caps, dateLoop, node, buf>>

\* funcShell.Eval
EvalShell ==
    /\ pc = "ready"
    /\ node.kind = "funcShell"
    /\ \E orig \in OrigResults : Evaluated(ShellEval(orig), orig)

\* funcShellAndroidRot13.Eval
EvalRot13 ==
    /\ pc = "ready"
    /\ node.kind = "funcShellAndroidRot13"
    /\ \E env \in Envs(<<node.v>>) : Evaluated(Rot13Eval(node, env), "orig nil")

\* funcShellAndroidFindFileInDir.Eval
EvalFindFileInDir ==
    /\ pc = "ready"
    /\ node.kind = "funcShellAndroidFindFileInDir"
    /\ \E env \in Envs(<<node.dir>>) :
          \E ans \in AnswersTo(FindFileInDirEval(node, idx, env, AllOk, "orig nil")) :
             \E orig \in OrigResults :
                Evaluated(FindFileInDirEval(node, idx, env, ans, orig), orig)

\* funcShellAndroidFindExtFilesUnder.Eval
EvalFindExtFilesUnder ==
    /\ pc = "ready"
    /\ node.kind = "funcShellAndroidFindExtFilesUnder"
    /\ \E env \in Envs(<<node.chdir, node.roots>>) :
          \E ans \in AnswersTo(FindExtFilesUnderEval(node, idx, env, AllOk, "orig nil")) :
             \E orig \in OrigResults :
                Evaluated(FindExtFilesUnderEval(node, idx, env, ans, orig), orig)

\* funcShellAndroidFindJavaResourceFileGroup.Eval
EvalFindJavaResourceFileGroup ==
    /\ pc = "ready"
    /\ node.kind = "funcShellAndroidFindJavaResourceFileGroup"
    /\ \E env \in Envs(node.dir) :
          \E ans \in AnswersTo(FindJavaResourceFileGroupEval(node, idx, env, AllOk, "orig nil")) :
             \E orig \in OrigResults :
                Evaluated(FindJavaResourceFileGroupEval(node, idx, env, ans, orig), orig)

\* funcShellAndroidFindleaves.Eval
EvalFindleaves ==
    /\ pc = "ready"
    /\ node.kind = "funcShellAndroidFindleaves"
    /\ \E env \in Envs(<<node.name, node.dirlist>> \o node.prunes) :
          \E ans \in AnswersTo(FindleavesEval(node, idx, env, AllOk, "orig nil")) :
             \E orig \in OrigResults :
                Evaluated(FindleavesEval(node, idx, env, ans, orig), orig)

\* funcShellDate.Eval
EvalShellDate ==
    /\ pc = "ready"
    /\ node.kind = "funcShellDate"
    /\ Evaluated(DateEval(node, ts), "orig nil")

\* the evaluator comes back to the node for another evaluation
Again ==
    /\ pc = "done"
    /\ pc' = "ready"
    /\ ev' = NoEval
    /\ UNCHANGED <<shape, fill, ts, idx, caps, dateLoop, node, buf>>

Next ==
    \/ CompactCommand
    \/ CompactShellDateCall
    \/ DateLoopStep
    \/ CompactShellDateReturn
    \/ IndexFilesReady
    \/ IndexLeavesReady
    \/ EvalShell
    \/ EvalRot13
    \/ EvalFindFileInDir
    \/ EvalFindExtFilesUnder
    \/ EvalFindJavaResourceFileGroup
    \/ EvalFindleaves
    \/ EvalShellDate
    \/ Again

Spec == Init /\ [][Next]_vars

\* compactShellDate called on a capture of its own: a literal format or a reference
InitDate ==
    /\ pc = "datecall"
    /\ shape = 0
    /\ fill = <<>>
    /\ ts \in {ZeroTime, RefTime}
    /\ idx = [initialized |-> FALSE, files |-> FALSE, leaves |-> FALSE]
    /\ caps \in {<<Literal(f)>> : f \in SeqsUpTo(FmtAlphabet, MaxFmtLen)} \cup {<<Paramref(1)>>}
    /\ dateLoop = NoLoop
    /\ node = sh
    /\ ev = NoEval
    /\ buf = NoBuf

NextDate ==
    \/ CompactShellDateCall
    \/ DateLoopStep
    \/ CompactShellDateReturn
    \/ EvalShell
    \/ EvalShellDate
    \/ Again

SpecDate == InitDate /\ [][NextDate]_vars

\* rot13 called on a buffer, then on its result
InitRot13 ==
    /\ pc = "rot"
    /\ shape = 0
    /\ fill = <<>>
    /\ ts = ZeroTime
    /\ idx = [initialized |-> FALSE, files |-> FALSE, leaves |-> FALSE]
    /\ caps = <<>>
    /\ dateLoop = NoLoop
    /\ node = sh
    /\ ev = NoEval
    /\ \E b \in RotInputs : buf = [orig |-> b, cur |-> b, n |-> 0]

Rot13Call ==
    /\ pc = "rot"
    /\ buf.n < 2
    /\ buf' = [buf EXCEPT !.cur = rot13(buf.cur), !.n = buf.n + 1]
    /\ UNCHANGED <<pc, shape, fill, ts, idx, caps, dateLoop, node, ev>>

NextRot13 == Rot13Call

SpecRot13 == InitRot13 /\ [][NextRot13]_vars

-----------------------------------------------------------------------------
(* The properties. *)

FsKinds ==
    {"funcShellAndroidFindFileInDir", "funcShellAndroidFindExtFilesUnder",
     "funcShellAndroidFindJavaResourceFileGroup", "funcShellAndroidFindleaves"}

ResolvingKinds == FsKinds \cup {"funcShellAndroidRot13"}

\* an evaluation of one of the filesystem-query handlers has just ended
FsEvaluated == pc = "done" /\ node.kind \in FsKinds

\* the last evaluation resolved its values, and a resolved directory capture
\* holds "..": dir, chdir, a word of roots, a word of dirlist
DotDotCaptured ==
    /\ ev.args.ok
    /\ CASE node.kind = "funcShellAndroidFindFileInDir" ->
              Contains(ev.args.fargs[1], DotDot)
         [] node.kind = "funcShellAndroidFindJavaResourceFileGroup" ->
              Contains(ev.args.fargs[1], DotDot)
         [] node.kind = "funcShellAndroidFindExtFilesUnder" ->
              \/ Contains(ev.args.fargs[1], DotDot)
              \/ \E i \in 1..Len(Words(ev.args.fargs[2])) :
                    Contains(Words(ev.args.fargs[2])[i], DotDot)
         [] node.kind = "funcShellAndroidFindleaves" ->
              \E i \in 1..Len(Words(ev.args.fargs[2])) :
                 Contains(Words(ev.args.fargs[2])[i], DotDot)

\* the last evaluation ran the original command once, returned what it returned,
\* and wrote nothing but the original command's output
FellBack ==
    /\ ev.origEvals = 1
    /\ ev.ret \in OrigResults
    /\ ev.out = <<OrigItem>>

\* C1: whenever a filesystem-query handler has resolved its values and a resolved
\* directory capture contains "..", its Eval runs the original command exactly
\* once, returns its result, asks the index nothing and writes nothing of its own.
C1_DotDotFallsBack ==
    (FsEvaluated /\ DotDotCaptured) => (FellBack /\ ev.queries = <<>>)

\* an extension search over three roots of which only the first holds ".." fell back
C1_Witness ==
    /\ pc = "done"
    /\ node.kind = "funcShellAndroidFindExtFilesUnder"
    /\ idx.files
    /\ ev.args.ok
    /\ Len(Words(ev.args.fargs[2])) = 3
    /\ Contains(Words(ev.args.fargs[2])[1], DotDot)
    /\ ~Contains(Words(ev.args.fargs[2])[3], DotDot)
    /\ ~Contains(ev.args.fargs[1], DotDot)
    /\ ev.origEvals = 1

\* the tokens the last evaluation had to query the index for
TokensToQuery ==
    IF node.kind \in {"funcShellAndroidFindExtFilesUnder", "funcShellAndroidFindleaves"}
    THEN Len(Words(ev.args.fargs[2]))
    ELSE 1

IsWord(item) == item.src = "word"

\* out is words of the index and single spaces between them, the words those of
\* the queries 1..nq in order, each query's words in order from its first
NativeOutput(out, nq) ==
    LET ws == SelectSeq(out, IsWord)
    IN  /\ \A i \in 1..Len(out) : out[i] = (IF i % 2 = 1 THEN ws[(i + 1) \div 2] ELSE SpaceItem)
        /\ Len(out) = (IF Len(ws) = 0 THEN 0 ELSE 2 * Len(ws) - 1)
        /\ \A i \in 1..Len(ws) :
              /\ ws[i].q \in 1..nq
              /\ IF i = 1 THEN ws[i].w = 1
                 ELSE \/ ws[i].q = ws[i - 1].q /\ ws[i].w = ws[i - 1].w + 1
                      \/ ws[i].q > ws[i - 1].q /\ ws[i].w = 1

\* C2: what a filesystem-query handler's evaluation writes is either the original
\* command's output alone or the index's results alone, and then for all the
\* tokens; a failed findExtFilesUnder leaves none of the earlier roots' results.
C2_NoPartialResults ==
    FsEvaluated =>
        IF ev.origEvals > 0 THEN ev.out = <<OrigItem>> /\ ev.origEvals = 1
        ELSE IF ev.ret = "nil"
        THEN /\ Len(ev.queries) = TokensToQuery
             /\ NativeOutput(ev.out, Len(ev.queries))
        ELSE ev.out = <<>>

\* an extension search of three roots whose second root the index could not answer
C2_Witness ==
    /\ pc = "done"
    /\ node.kind = "funcShellAndroidFindExtFilesUnder"
    /\ ev.args.ok
    /\ Len(Words(ev.args.fargs[2])) = 3
    /\ Len(ev.queries) = 2
    /\ ev.origEvals = 1

\* the readiness the node's handler asks the index for
IndexReadyFor(n) ==
    IF n.kind = "funcShellAndroidFindleaves" THEN leavesReady(idx) ELSE ready(idx)

\* C3: an evaluation that finds the index not ready (ready() for the directory
\* listing, the extension search and the Java resource group, leavesReady() for
\* the leaf search) asks the index nothing, and falls back to the original
\* command unless resolution had already failed.
C3_NotReadyNoQuery ==
    (FsEvaluated /\ ~IndexReadyFor(node)) =>
        /\ ev.queries = <<>>
        /\ (ev.ret # "args" => FellBack)

\* a directory listing of a directory without ".." found the index not ready
C3_Witness ==
    /\ pc = "done"
    /\ node.kind = "funcShellAndroidFindFileInDir"
    /\ ~ready(idx)
    /\ ev.args.ok
    /\ ~Contains(ev.args.fargs[1], DotDot)
    /\ ev.origEvals = 1

IsLower(b) == b >= 97 /\ b <= 122

IsUpper(b) == b >= 65 /\ b <= 90

\* C4: rot13 keeps the length, leaves every byte that is no ASCII letter as it is,
\* takes every letter to the letter 13 places on in the alphabet of its own case,
\* wrapping around, and applied twice gives the buffer back.
C4_Rot13 ==
    /\ Len(buf.cur) = Len(buf.orig)
    /\ \A i \in 1..Len(buf.cur) : buf.cur[i] \in Byte
    /\ buf.n = 1 =>
          \A i \in 1..Len(buf.orig) :
             LET b == buf.orig[i]
                 c == buf.cur[i]
             IN  /\ IsLower(b) => c = 97 + ((b - 97 + 13) % 26)
                 /\ IsUpper(b) => c = 65 + ((b - 65 + 13) % 26)
                 /\ (~IsLower(b) /\ ~IsUpper(b)) => c = b
    /\ buf.n = 2 => buf.cur = buf.orig

\* "nZ@" went through rot13 twice
C4_Witness ==
    /\ buf.n = 2
    /\ buf.orig = <<110, 90, 64>>

\* C5: a live command written in the shape of a registry entry matches that entry
\* and no entry before it, so the first matching entry is that one.
C5_ShapeSelectsEntry ==
    shape # 0 =>
        LET exp == LiveCommand(shape, fill)
        IN  /\ matchExpr(exp, shBuiltins[shape].pattern).ok
            /\ \A j \in 1..(shape - 1) : ~matchExpr(exp, shBuiltins[j].pattern).ok
            /\ FirstMatch(exp) = shape
            /\ pc # "start" => caps = matchExpr(exp, shBuiltins[shape].pattern).matches

\* a command of the all-proto-files-under shape was compacted into a search for .proto
C5_Witness ==
    /\ shape = 4
    /\ pc = "ready"
    /\ node.kind = "funcShellAndroidFindExtFilesUnder"
    /\ node.ext = ExtProto

\* C6: compactShellDate returns the original node when ShellDateTimestamp is zero
\* or the capture is no literal; otherwise a funcShellDate holding the format as
\* the loop left it, and an Eval of that node writes ShellDateTimestamp formatted
\* with the stored format, leaves the format alone and never runs the original.
C6_ShellDate ==
    /\ pc \in {"ready", "done"} =>
          IF IsZero(ts) \/ caps[1].t # "literal"
          THEN node.kind = "funcShell"
          ELSE /\ node.kind = "funcShellDate"
               /\ dateLoop.remaining = {}
               /\ node.format = dateLoop.tfstr
    /\ (pc = "done" /\ node.kind = "funcShellDate") =>
          /\ ev.out = <<BytesItem(Format(ts, node.format))>>
          /\ ev.origEvals = 0
          /\ ev.queries = <<>>
          /\ ev.ret = "nil"

\* the format %Y was compacted and evaluated to 2024
C6_Witness ==
    /\ pc = "done"
    /\ node.kind = "funcShellDate"
    /\ caps = <<Literal(K_Y)>>
    /\ ev.out = <<BytesItem(<<50, 48, 50, 52>>)>>

RECURSIVE ExpectedTranslation(_)
\* the format read as date reads it, a % and the byte after it being one
\* directive: the recognized directives replaced, everything else as it was
ExpectedTranslation(s) ==
    IF s = <<>> THEN <<>>
    ELSE IF s[1] = 37 /\ Len(s) >= 2
    THEN LET d == Take(s, 2)
             known == {kv \in shellDateFormatRef : kv.k = d}
         IN  (IF known = {} THEN d ELSE (CHOOSE kv \in known : TRUE).v)
             \o ExpectedTranslation(Drop(s, 2))
    ELSE <<s[1]>> \o ExpectedTranslation(Tail(s))

\* C7: the format compactShellDate stores is the captured format with every
\* recognized directive replaced by its token and every other directive (%%
\* among them) and every other byte unchanged, whatever the order of the map.
C7_DirectivesTranslated ==
    (pc = "ready" /\ node.kind = "funcShellDate") =>
        node.format = ExpectedTranslation(caps[1].s)

\* C8: when the ev.args call of a handler that resolves values fails, Eval returns
\* that error, writes nothing, asks the index nothing and does not run the
\* original command.
C8_ArgsErrorReturned ==
    (pc = "done" /\ node.kind \in ResolvingKinds /\ ev.args.called /\ ~ev.args.ok) =>
        /\ ev.ret = "args"
        /\ ev.out = <<>>
        /\ ev.queries = <<>>
        /\ ev.origEvals = 0

\* a Java resource group whose directory could not be resolved
C8_Witness ==
    /\ pc = "done"
    /\ node.kind = "funcShellAndroidFindJavaResourceFileGroup"
    /\ ev.args.called
    /\ ~ev.args.ok
    /\ ev.ret = "args"

\* the directories a query names: dir, and chdir for the extension search
QueryNamesDotDot(q) == Contains(q.dir, DotDot) \/ Contains(q.chdir, DotDot)

\* C9 as stated: every filesystem-query handler falls back when a resolved path
\* token contains "..", for the leaf search the resolved prune values included,
\* so that findleaves is never called with a directory or a prune containing "..".
C9_NoDotDotReachesIndex ==
    FsEvaluated =>
        /\ DotDotCaptured => (FellBack /\ ev.queries = <<>>)
        /\ \A i \in 1..Len(ev.queries) :
              /\ ~QueryNamesDotDot(ev.queries[i])
              /\ \A j \in 1..Len(ev.queries[i].prunes) :
                    ~Contains(ev.queries[i].prunes[j], DotDot)

\* C9 amended: every filesystem-query handler falls back when a resolved directory
\* token (dir, chdir, a word of roots, a word of dirlist) contains "..", so that
\* no query is ever called with a directory containing ".."; the leaf search does
\* not look at its resolved prune values, which reach findleaves as they are.
C9_NoDotDotDirectoryReachesIndex ==
    FsEvaluated =>
        /\ DotDotCaptured => (FellBack /\ ev.queries = <<>>)
        /\ \A i \in 1..Len(ev.queries) : ~QueryNamesDotDot(ev.queries[i])
        /\ (node.kind = "funcShellAndroidFindleaves" /\ ev.ret = "nil") =>
              \A i \in 1..Len(ev.queries) :
                 ev.queries[i].prunes[1] = trimSpaceBytes(ev.args.fargs[3])

\* a leaf search of two directories called findleaves with the prune ../a
C9_Witness ==
    /\ pc = "done"
    /\ node.kind = "funcShellAndroidFindleaves"
    /\ Len(ev.queries) = 2
    /\ Contains(ev.queries[1].prunes[1], DotDot)

\* the mindepth the templates of the leaf search give
TemplateMindepth(s) ==
    CASE shBuiltins[s].name = "android:subdir_cleanspecs" -> -1
      [] shBuiltins[s].name = "android:subdir_makefiles" -> -1
      [] shBuiltins[s].name = "android:first-makefiles-under" -> 2

\* C10: a leaf search with the leaves ready, its values resolved and no ".." in
\* its dirlist calls findleaves once for each word of the dirlist, in order, each
\* time with the trimmed name, the prunes (captured prune, .repo, .git) and the
\* template's mindepth; it writes the index's results for those calls in that
\* order and never runs the original command.
C10_FindleavesCalls ==
    (pc = "done" /\ node.kind = "funcShellAndroidFindleaves" /\ leavesReady(idx)
        /\ ev.args.ok /\ ~DotDotCaptured) =>
        LET dirs == Words(ev.args.fargs[2])
        IN  /\ Len(ev.queries) = Len(dirs)
            /\ \A i \in 1..Len(dirs) :
                  ev.queries[i] =
                     Query("findleaves", dirs[i], <<>>, <<>>,
                           trimSpaceBytes(ev.args.fargs[1]),
                           <<trimSpaceBytes(ev.args.fargs[3]), DotRepo, DotGit>>,
                           TemplateMindepth(shape))
            /\ NativeOutput(ev.out, Len(dirs))
            /\ ev.origEvals = 0
            /\ ev.ret = "nil"

\* a first-makefiles-under search of three directories, the index writing for each
C10_Witness ==
    /\ pc = "done"
    /\ shape = 8
    /\ node.kind = "funcShellAndroidFindleaves"
    /\ Len(ev.queries) = 3
    /\ ev.queries[3].mindepth = 2
    /\ Len(SelectSeq(ev.out, IsWord)) = 3
    /\ ev.origEvals = 0

====
